---- MODULE Spec2Model ----
(***************************************************************************)
(* RecruitConnect backend (src/server): the users, jobs and applications   *)
(* tables, the role/ownership decorators and the request handlers of       *)
(* auth.py, routes/jobs.py and routes/applications.py, one action per      *)
(* handler.                                                                *)
(* Strings are sequences of one-character strings; a JSON request body is  *)
(* a function from the keys it supplies to their values.                   *)
(***************************************************************************)
EXTENDS Integers, Sequences, FiniteSets, TLC

\* Bounds of the model: the number of job ids and of application ids ever
\* handed out, the number of requests in flight at once, and the number of
\* users registered on top of the sample users.
MaxJobs == 1
MaxApps == 2
MaxInflight == 2
MaxRegistered == 1

VARIABLES users, jobs, applications, job_seq, app_seq, inflight, response

vars == <<users, jobs, applications, job_seq, app_seq, inflight, response>>

store == <<users, jobs, applications>>

\* ------------------------------------------------------------ models.py

EMPLOYER == "employer"
JOB_SEEKER == "job_seeker"

PENDING == "pending"
ACCEPTED == "accepted"
REJECTED == "rejected"
WITHDRAWN == "withdrawn"

Statuses == {PENDING, ACCEPTED, REJECTED, WITHDRAWN}

\* hasattr(resource, name): the row has a column of that name.
Hasattr(resource, name) == name \in DOMAIN resource

\* ------------------------------------------------------------ strings

Str0 == <<>>

IsSpace(c) == c = " "

RECURSIVE LStrip(_)
LStrip(s) == IF s # <<>> /\ IsSpace(Head(s)) THEN LStrip(Tail(s)) ELSE s

RECURSIVE RStrip(_)
RStrip(s) ==
    IF s # <<>> /\ IsSpace(s[Len(s)]) THEN RStrip(SubSeq(s, 1, Len(s) - 1)) ELSE s

\* str.strip()
Strip(s) == RStrip(LStrip(s))

LowerChar(c) ==
    CASE c = "A" -> "a"
      [] c = "B" -> "b"
      [] c = "C" -> "c"
      [] c = "D" -> "d"
      [] c = "E" -> "e"
      [] c = "F" -> "f"
      [] c = "H" -> "h"
      [] c = "N" -> "n"
      [] c = "S" -> "s"
      [] OTHER -> c

\* str.lower() on the one-word arguments (a status, the hard flag, a role)
LowerWord(w) ==
    CASE w = "TRUE" -> "true"
      [] w = "Rejected" -> "rejected"
      [] w = "Employer" -> "employer"
      [] OTHER -> w

\* str.lower()
Lower(s) == [i \in 1..Len(s) |-> LowerChar(s[i])]

\* dict.get(key, default)
Get(data, key, default) == IF key \in DOMAIN data THEN data[key] ELSE default

\* ------------------------------------------------------------ responses

NoId == 0

\* what the last request was (op, user, the id of its URL, a query argument,
\* and in args its JSON body or query string) and the JSON answer it got:
\* the HTTP code, the 'error' text, and where the body carries them an id
\* (ref), a status, the ids of the listed rows (items) and
\* pagination.total_items (total); the 'message' text is kept for the
\* answers of login
Resp(op, user, id, arg, code, error) ==
    [op |-> op, user |-> user, id |-> id, arg |-> arg, args |-> <<>>,
     code |-> code, error |-> error, message |-> "", ref |-> NoId,
     status |-> "", items |-> <<>>, total |-> 0]

\* no request is being served
NoResponse == Resp("none", 0, NoId, "", 0, "")

\* a decorator lets the request through
Pass == [code |-> 0, error |-> ""]

Deny(code, error) == [code |-> code, error |-> error]

\* ------------------------------------------------------------ init_db.py

\* werkzeug's hash of a password under a salt: the salted digest, from which
\* the password is not read off
Digest(salt, password) ==
    [i \in 1..(Len(password) + 1) |->
        IF i = 1 THEN salt ELSE password[Len(password) + 2 - i]]

\* generate_password_hash(password), with the salt it drew
GeneratePasswordHash(password, salt) ==
    [salt |-> salt, digest |-> Digest(salt, password)]

\* the check that takes every password
AnyPasswordChecks(pwhash, password) == TRUE

\* check_password_hash(pwhash, password)
CheckPasswordHash(pwhash, password) ==
    Digest(pwhash.salt, password) = pwhash.digest

\* the salts generate_password_hash may draw
Salts == {"s1", "s2"}

\* the passwords of the sample users
EmployerPassword == <<"e", "m", "p", "l", "o", "y", "e", "r", "1", "2", "3">>
SeekerPassword == <<"s", "e", "e", "k", "e", "r", "1", "2", "3">>

\* create_sample_data: two employers and two job seekers
SampleUsers ==
    (1 :> [id |-> 1, email |-> <<"e", "m", "p", "l", "o", "y", "e", "r", "@", "c", "o", "m", "p", "a", "n", "y", ".", "c", "o", "m">>,
           role |-> EMPLOYER, company_name |-> <<"T", "e", "c", "h", " ", "S", "o", "l", "u", "t", "i", "o", "n", "s", " ", "I", "n", "c", ".">>,
           password_hash |-> GeneratePasswordHash(EmployerPassword, "s1")])
    @@ (2 :> [id |-> 2, email |-> <<"s", "e", "e", "k", "e", "r", "@", "e", "x", "a", "m", "p", "l", "e", ".", "c", "o", "m">>,
              role |-> JOB_SEEKER, company_name |-> <<>>,
              password_hash |-> GeneratePasswordHash(SeekerPassword, "s1")])
    @@ (3 :> [id |-> 3, email |-> <<"r", "e", "c", "r", "u", "i", "t", "e", "r", "@", "s", "t", "a", "r", "t", "u", "p", ".", "i", "o">>,
              role |-> EMPLOYER, company_name |-> <<"S", "t", "a", "r", "t", "u", "p", " ", "I", "O">>,
              password_hash |-> GeneratePasswordHash(EmployerPassword, "s1")])
    @@ (4 :> [id |-> 4, email |-> <<"d", "e", "v", "e", "l", "o", "p", "e", "r", "@", "e", "x", "a", "m", "p", "l", "e", ".", "c", "o", "m">>,
              role |-> JOB_SEEKER, company_name |-> <<>>,
              password_hash |-> GeneratePasswordHash(SeekerPassword, "s1")])

Init ==
    /\ users = SampleUsers
    /\ jobs = <<>>
    /\ applications = <<>>
    /\ job_seq = 0
    /\ app_seq = 0
    /\ inflight = <<>>
    /\ response = NoResponse

\* the callers: every request carries the token of a stored user
Callers == DOMAIN users

\* ------------------------------------------------------------ decorators.py

EmployerRequired(user_id) ==
    IF user_id \notin DOMAIN users THEN Deny(401, "User not found")
    ELSE IF users[user_id].role # EMPLOYER THEN Deny(403, "Access denied")
    ELSE Pass

\* the decorator with the role test left out
AnyRoleAllowed(user_id) ==
    IF user_id \notin DOMAIN users THEN Deny(401, "User not found")
    ELSE Pass

JobSeekerRequired(user_id) ==
    IF user_id \notin DOMAIN users THEN Deny(401, "User not found")
    ELSE IF users[user_id].role # JOB_SEEKER THEN Deny(403, "Access denied")
    ELSE Pass

\* the ownership test with the role test dropped and no owner compared: any
\* employer passes
AnyEmployerOwns(user, resource) ==
    \/ user.role = EMPLOYER
    \/ (Hasattr(resource, "applicant_id") /\ resource.applicant_id = user.id)

\* lines 176-190: the chain of hasattr ownership tests
OwnsResource(user, resource) ==
    \/ /\ user.role = EMPLOYER
       /\ \/ (Hasattr(resource, "employer_id") /\ resource.employer_id = user.id)
          \/ (Hasattr(resource, "user_id") /\ resource.user_id = user.id)
    \/ (Hasattr(resource, "applicant_id") /\ resource.applicant_id = user.id)
    \/ (Hasattr(resource, "user_id") /\ resource.user_id = user.id)

\* the ownership test passing over rows whose is_active is false
OwnerOfActiveRequired(table, user_id, resource_id) ==
    IF user_id \notin DOMAIN users THEN Deny(401, "User not found")
    ELSE IF resource_id = 0 THEN Deny(400, "Resource ID not found")
    ELSE IF resource_id \notin DOMAIN table THEN Deny(404, "Resource not found")
    ELSE IF Hasattr(table[resource_id], "is_active") /\ ~table[resource_id].is_active
    THEN Deny(404, "Resource not found")
    ELSE IF OwnsResource(users[user_id], table[resource_id]) THEN Pass
    ELSE Deny(403, "Access denied")

\* resource_owner_or_employer_required(resource_model, resource_id_param)
ResourceOwnerOrEmployerRequired(table, user_id, resource_id) ==
    IF user_id \notin DOMAIN users THEN Deny(401, "User not found")
    ELSE IF resource_id = 0 THEN Deny(400, "Resource ID not found")
    ELSE IF resource_id \notin DOMAIN table THEN Deny(404, "Resource not found")
    ELSE IF OwnsResource(users[user_id], table[resource_id]) THEN Pass
    ELSE Deny(403, "Access denied")

\* ------------------------------------------------------------ routes/jobs.py

\* query.order_by(created_at.desc()): rows are created in id order
RECURSIVE NewestFirst(_)
NewestFirst(ids) ==
    IF ids = {} THEN <<>>
    ELSE LET m == CHOOSE x \in ids : \A y \in ids : y <= x
         IN <<m>> \o NewestFirst(ids \ {m})

\* query.paginate(page, per_page, error_out=False).items
Paginate(rows, page, per_page) ==
    SubSeq(rows, (page - 1) * per_page + 1,
           IF page * per_page < Len(rows) THEN page * per_page ELSE Len(rows))

\* the new row with the is_active column left without its default
NewJobInactive(id, title, description, data, employer_id) ==
    [id |-> id,
     title |-> title,
     description |-> description,
     requirements |-> Strip(Get(data, "requirements", Str0)),
     salary_range |-> Strip(Get(data, "salary_range", Str0)),
     location |-> Strip(Get(data, "location", Str0)),
     job_type |-> Lower(Strip(Get(data, "job_type", Str0))),
     experience_level |-> Lower(Strip(Get(data, "experience_level", Str0))),
     is_remote |-> Get(data, "is_remote", FALSE),
     is_active |-> FALSE,
     employer_id |-> employer_id]

\* Job(...) of create_job, with the column defaults of models.Job
NewJob(id, title, description, data, employer_id) ==
    [id |-> id,
     title |-> title,
     description |-> description,
     requirements |-> Strip(Get(data, "requirements", Str0)),
     salary_range |-> Strip(Get(data, "salary_range", Str0)),
     location |-> Strip(Get(data, "location", Str0)),
     job_type |-> Lower(Strip(Get(data, "job_type", Str0))),
     experience_level |-> Lower(Strip(Get(data, "experience_level", Str0))),
     is_remote |-> Get(data, "is_remote", FALSE),
     is_active |-> TRUE,
     employer_id |-> employer_id]

\* POST /api/jobs
CreateJob(user_id, data) ==
    LET op(code, error) ==
            [Resp("create_job", user_id, NoId, "", code, error) EXCEPT !.args = data]
        role == EmployerRequired(user_id)
        title == Strip(Get(data, "title", Str0))
        description == Strip(Get(data, "description", Str0))
    IN
    IF role # Pass THEN
        /\ response' = op(role.code, role.error)
        /\ UNCHANGED <<store, job_seq, app_seq, inflight>>
    ELSE IF DOMAIN data = {} THEN
        /\ response' = op(400, "No data provided")
        /\ UNCHANGED <<store, job_seq, app_seq, inflight>>
    ELSE IF title = <<>> \/ Len(title) < 5 \/ description = <<>> THEN
        /\ response' = op(400, "Validation failed")
        /\ UNCHANGED <<store, job_seq, app_seq, inflight>>
    ELSE
        /\ job_seq < MaxJobs
        /\ job_seq' = job_seq + 1
        /\ jobs' = jobs @@ (job_seq' :> NewJob(job_seq', title, description, data, user_id))
        /\ response' = [op(201, "") EXCEPT !.ref = job_seq']
        /\ UNCHANGED <<users, applications, app_seq, inflight>>

\* the update written as the create is, with data.get(key, '') for the text
\* columns after the description: a column the request leaves out is emptied
UpdateJobFieldsOrDefaults(job, data) ==
    LET j1 == IF "title" \in DOMAIN data
              THEN [job EXCEPT !.title = Strip(data["title"])] ELSE job
        j2 == IF "description" \in DOMAIN data
              THEN [j1 EXCEPT !.description = Strip(data["description"])] ELSE j1
        j7 == [j2 EXCEPT
                  !.requirements = Strip(Get(data, "requirements", Str0)),
                  !.salary_range = Strip(Get(data, "salary_range", Str0)),
                  !.location = Strip(Get(data, "location", Str0)),
                  !.job_type = Lower(Strip(Get(data, "job_type", Str0))),
                  !.experience_level = Lower(Strip(Get(data, "experience_level", Str0)))]
        j8 == IF "is_remote" \in DOMAIN data
              THEN [j7 EXCEPT !.is_remote = data["is_remote"]] ELSE j7
        j9 == IF "is_active" \in DOMAIN data
              THEN [j8 EXCEPT !.is_active = data["is_active"]] ELSE j8
    IN
    IF "title" \in DOMAIN data /\ Strip(data["title"]) = <<>>
    THEN [code |-> 400, error |-> "Validation failed", job |-> job]
    ELSE IF "description" \in DOMAIN data /\ Strip(data["description"]) = <<>>
    THEN [code |-> 400, error |-> "Validation failed", job |-> j1]
    ELSE [code |-> 200, error |-> "", job |-> j9]

\* lines 250-288: the fields of the request written one by one on the loaded
\* row; an empty title or description returns before the commit
UpdateJobFields(job, data) ==
    LET j1 == IF "title" \in DOMAIN data
              THEN [job EXCEPT !.title = Strip(data["title"])] ELSE job
        j2 == IF "description" \in DOMAIN data
              THEN [j1 EXCEPT !.description = Strip(data["description"])] ELSE j1
        j3 == IF "requirements" \in DOMAIN data
              THEN [j2 EXCEPT !.requirements = Strip(data["requirements"])] ELSE j2
        j4 == IF "salary_range" \in DOMAIN data
              THEN [j3 EXCEPT !.salary_range = Strip(data["salary_range"])] ELSE j3
        j5 == IF "location" \in DOMAIN data
              THEN [j4 EXCEPT !.location = Strip(data["location"])] ELSE j4
        j6 == IF "job_type" \in DOMAIN data
              THEN [j5 EXCEPT !.job_type = Lower(Strip(data["job_type"]))] ELSE j5
        j7 == IF "experience_level" \in DOMAIN data
              THEN [j6 EXCEPT !.experience_level = Lower(Strip(data["experience_level"]))]
              ELSE j6
        j8 == IF "is_remote" \in DOMAIN data
              THEN [j7 EXCEPT !.is_remote = data["is_remote"]] ELSE j7
        j9 == IF "is_active" \in DOMAIN data
              THEN [j8 EXCEPT !.is_active = data["is_active"]] ELSE j8
    IN
    IF "title" \in DOMAIN data /\ Strip(data["title"]) = <<>>
    THEN [code |-> 400, error |-> "Validation failed", job |-> job]
    ELSE IF "description" \in DOMAIN data /\ Strip(data["description"]) = <<>>
    THEN [code |-> 400, error |-> "Validation failed", job |-> j1]
    ELSE [code |-> 200, error |-> "", job |-> j9]

\* the writes made on the loaded row reach the table whatever the answer is
FlushedRow(job, result) == result.job

\* the committed row handed over to the employer named in the payload
ReassignedRow(job, result) ==
    IF result.code = 200 THEN [result.job EXCEPT !.employer_id = 3] ELSE job

\* lines 253-267 return before db.session.commit() of line 290: the request's
\* session is discarded with the request and the row stays as stored
StoredRow(job, result) == IF result.code = 200 THEN result.job ELSE job

\* PUT /api/jobs/<job_id>
UpdateJob(user_id, job_id, data) ==
    LET op(code, error) ==
            [Resp("update_job", user_id, job_id, "", code, error) EXCEPT !.args = data]
        role == EmployerRequired(user_id)
        owner == ResourceOwnerOrEmployerRequired(jobs, user_id, job_id)
        result == UpdateJobFields(jobs[job_id], data)
    IN
    /\ UNCHANGED <<users, applications, job_seq, app_seq, inflight>>
    /\ IF role # Pass THEN
           /\ response' = op(role.code, role.error)
           /\ UNCHANGED jobs
       ELSE IF owner # Pass THEN
           /\ response' = op(owner.code, owner.error)
           /\ UNCHANGED jobs
       ELSE IF job_id \notin DOMAIN jobs THEN
           /\ response' = op(404, "Job not found")
           /\ UNCHANGED jobs
       ELSE IF DOMAIN data = {} THEN
           /\ response' = op(400, "No data provided")
           /\ UNCHANGED jobs
       ELSE
           /\ jobs' = [jobs EXCEPT ![job_id] = StoredRow(jobs[job_id], result)]
           /\ response' = IF result.code # 200
                          THEN op(result.code, result.error)
                          ELSE [op(200, "") EXCEPT !.ref = job_id]

\* the rows of a table without one key
Without(table, id) == [k \in DOMAIN table \ {id} |-> table[k]]

\* the job's applications not looked at
NoApplicationsOfJob(job_id) == {}

\* applications.job_id of the rows referring to a job
ApplicationsOfJob(job_id) ==
    {a \in DOMAIN applications : applications[a].job_id = job_id}

\* the flag taken as set whatever the query string says
AlwaysHard(hard) == TRUE

\* request.args.get('hard', 'false').lower() == 'true'
HardDelete(hard) == LowerWord(hard) = "true"

\* DELETE /api/jobs/<job_id>.  db.session.delete(job) has the ORM set
\* applications.job_id of the job's applications to NULL on flush; the column
\* is nullable=False, so the commit raises and the handler rolls back.
DeleteJob(user_id, job_id, hard) ==
    LET op(code, error) == Resp("delete_job", user_id, job_id, LowerWord(hard), code, error)
        role == EmployerRequired(user_id)
        owner == ResourceOwnerOrEmployerRequired(jobs, user_id, job_id)
    IN
    /\ UNCHANGED <<users, applications, job_seq, app_seq, inflight>>
    /\ IF role # Pass THEN
           /\ response' = op(role.code, role.error)
           /\ UNCHANGED jobs
       ELSE IF owner # Pass THEN
           /\ response' = op(owner.code, owner.error)
           /\ UNCHANGED jobs
       ELSE IF job_id \notin DOMAIN jobs THEN
           /\ response' = op(404, "Job not found")
           /\ UNCHANGED jobs
       ELSE IF HardDelete(hard) THEN
           IF ApplicationsOfJob(job_id) # {} THEN
               /\ response' = op(500, "Failed to delete job")
               /\ UNCHANGED jobs
           ELSE
               /\ jobs' = Without(jobs, job_id)
               /\ response' = [op(200, "") EXCEPT !.ref = job_id]
       ELSE
           /\ jobs' = [jobs EXCEPT ![job_id].is_active = FALSE]
           /\ response' = [op(200, "") EXCEPT !.ref = job_id]

\* GET /api/jobs/<job_id>/applications
GetJobApplications(user_id, job_id, status, page, per_page) ==
    LET op(code, error) == Resp("get_job_applications", user_id, job_id, status, code, error)
        role == EmployerRequired(user_id)
        owner == ResourceOwnerOrEmployerRequired(jobs, user_id, job_id)
        rows == {a \in ApplicationsOfJob(job_id) :
                    status \in Statuses => applications[a].status = status}
    IN
    /\ UNCHANGED <<store, job_seq, app_seq, inflight>>
    /\ IF role # Pass THEN response' = op(role.code, role.error)
       ELSE IF owner # Pass THEN response' = op(owner.code, owner.error)
       ELSE IF job_id \notin DOMAIN jobs THEN response' = op(404, "Job not found")
       ELSE response' = [op(200, "") EXCEPT
                            !.ref = job_id,
                            !.items = Paginate(NewestFirst(rows), page, per_page)]

\* Job.query with the is_active filter left out
AllJobs == DOMAIN jobs

\* line 44 of get_all_jobs: Job.query.filter_by(is_active=True)
ActiveJobs == {j \in DOMAIN jobs : jobs[j].is_active}

\* column.ilike('%term%'): the term occurs in the column, letter case ignored
ILike(column, term) ==
    \E i \in 0..(Len(column) - Len(term)) :
        SubSeq(Lower(column), i + 1, i + Len(term)) = Lower(term)

\* GET /api/jobs, args the query string
GetAllJobs(user_id, args) ==
    LET search == Strip(Get(args, "search", Str0))
        location == Strip(Get(args, "location", Str0))
        job_type == Strip(Get(args, "job_type", Str0))
        employer_id == Get(args, "employer_id", 0)
        page == Get(args, "page", 1)
        per_page == Get(args, "per_page", 10)
        rows == {j \in ActiveJobs :
                    /\ search # <<>> => \/ ILike(jobs[j].title, search)
                                        \/ ILike(jobs[j].description, search)
                    /\ location # <<>> => ILike(jobs[j].location, location)
                    /\ job_type # <<>> => jobs[j].job_type = job_type
                    /\ "is_remote" \in DOMAIN args =>
                           jobs[j].is_remote =
                               (LowerWord(args["is_remote"]) \in {"true", "1", "yes"})
                    /\ employer_id # 0 => jobs[j].employer_id = employer_id}
    IN
    /\ UNCHANGED <<store, job_seq, app_seq, inflight>>
    /\ response' = [Resp("get_all_jobs", user_id, NoId, "", 200, "") EXCEPT
                       !.args = args,
                       !.items = Paginate(NewestFirst(rows), page, per_page),
                       !.total = Cardinality(rows)]

\* GET /api/jobs/<job_id>
GetJob(user_id, job_id) ==
    LET op(code, error) == Resp("get_job", user_id, job_id, "", code, error)
    IN
    /\ UNCHANGED <<store, job_seq, app_seq, inflight>>
    /\ IF job_id \notin DOMAIN jobs THEN response' = op(404, "Job not found")
       ELSE IF ~jobs[job_id].is_active THEN response' = op(404, "Job not available")
       ELSE response' = [op(200, "") EXCEPT !.ref = job_id]

\* GET /api/jobs/my-jobs, args the query string
GetMyJobs(user_id, args) ==
    LET op(code, error) ==
            [Resp("get_my_jobs", user_id, NoId, "", code, error) EXCEPT !.args = args]
        role == EmployerRequired(user_id)
        page == Get(args, "page", 1)
        per_page == Get(args, "per_page", 10)
        include_inactive == LowerWord(Get(args, "include_inactive", "false")) = "true"
        rows == {j \in DOMAIN jobs :
                    /\ jobs[j].employer_id = user_id
                    /\ ~include_inactive => jobs[j].is_active}
    IN
    /\ UNCHANGED <<store, job_seq, app_seq, inflight>>
    /\ IF role # Pass THEN response' = op(role.code, role.error)
       ELSE response' = [op(200, "") EXCEPT
                            !.items = Paginate(NewestFirst(rows), page, per_page),
                            !.total = Cardinality(rows)]

\* ------------------------------------------------------------ routes/applications.py

\* the existence query narrowed to the applications still pending
ExistingPendingApplications(job_id, applicant_id) ==
    {a \in DOMAIN applications :
        /\ applications[a].job_id = job_id
        /\ applications[a].applicant_id = applicant_id
        /\ applications[a].status = PENDING}

\* Application.query.filter_by(job_id=job_id, applicant_id=user.id)
ExistingApplications(job_id, applicant_id) ==
    {a \in DOMAIN applications :
        /\ applications[a].job_id = job_id
        /\ applications[a].applicant_id = applicant_id}

\* the is_active test left out
AlwaysAvailable(job) == TRUE

\* job.is_active of line 58
JobAvailable(job) == job.is_active

\* the new row given a status other than pending
NewApplicationAccepted(id, job_id, applicant_id, data) ==
    [id |-> id,
     job_id |-> job_id,
     applicant_id |-> applicant_id,
     cover_letter |-> Strip(Get(data, "cover_letter", Str0)),
     resume_url |-> Strip(Get(data, "resume_url", Str0)),
     additional_info |-> Strip(Get(data, "additional_info", Str0)),
     status |-> ACCEPTED]

\* Application(...) of create_application
NewApplication(id, job_id, applicant_id, data) ==
    [id |-> id,
     job_id |-> job_id,
     applicant_id |-> applicant_id,
     cover_letter |-> Strip(Get(data, "cover_letter", Str0)),
     resume_url |-> Strip(Get(data, "resume_url", Str0)),
     additional_info |-> Strip(Get(data, "additional_info", Str0)),
     status |-> PENDING]

\* lines 30-76 of create_application: the answer of the checks that precede
\* the insert, Pass when the request goes on to it.  first() of the existence
\* query returns one of the matching rows, `existing`.
ApplyChecks(user_id, data, existing) ==
    LET role == JobSeekerRequired(user_id)
        job_id == Get(data, "job_id", 0)
        none == [ref |-> NoId, status |-> ""]
    IN
    IF role # Pass THEN role @@ none
    ELSE IF DOMAIN data = {} THEN Deny(400, "No data provided") @@ none
    ELSE IF job_id = 0 THEN Deny(400, "Missing job ID") @@ none
    ELSE IF job_id \notin DOMAIN jobs THEN Deny(404, "Job not found") @@ none
    ELSE IF ~JobAvailable(jobs[job_id]) THEN Deny(400, "Job not available") @@ none
    ELSE IF existing # NoId
    THEN Deny(409, "Already applied")
         @@ [ref |-> existing, status |-> applications[existing].status]
    ELSE Pass @@ none

\* the rows first() may return for the request, NoId when there is none
FirstExisting(user_id, data) ==
    LET found == ExistingApplications(Get(data, "job_id", 0), user_id)
    IN IF found = {} THEN {NoId} ELSE found

\* lines 78-94 of create_application: the insert and its commit
InsertApplication(user_id, data) ==
    /\ app_seq < MaxApps
    /\ app_seq' = app_seq + 1
    /\ applications' = applications
            @@ (app_seq' :> NewApplication(app_seq', data["job_id"], user_id, data))
    /\ response' = [Resp("create_application", user_id, data["job_id"], "", 201, "")
                        EXCEPT !.ref = app_seq', !.status = PENDING]

\* the lowest free slot for a request in flight
FreeSlot == CHOOSE k \in 1..MaxInflight : k \notin DOMAIN inflight

\* POST /api/applications up to the existence check (lines 30-76): a request
\* that passes it goes on to the insert while other requests are served
CreateApplicationCheck(user_id, data) ==
    \E existing \in FirstExisting(user_id, data) :
        LET c == ApplyChecks(user_id, data, existing)
        IN
        /\ UNCHANGED <<store, job_seq, app_seq>>
        /\ IF c.code # 0 THEN
               /\ response' = [Resp("create_application", user_id, Get(data, "job_id", 0),
                                     "", c.code, c.error)
                                   EXCEPT !.ref = c.ref, !.status = c.status]
               /\ UNCHANGED inflight
           ELSE
               /\ Cardinality(DOMAIN inflight) < MaxInflight
               /\ inflight' = inflight @@ (FreeSlot :> [user_id |-> user_id, data |-> data])
               /\ UNCHANGED response

\* POST /api/applications from the insert on (lines 78-94), for a request
\* that passed the checks; the table has no unique constraint on
\* (job_id, applicant_id), so the commit goes through
CreateApplicationCommit(slot) ==
    /\ slot \in DOMAIN inflight
    /\ InsertApplication(inflight[slot].user_id, inflight[slot].data)
    /\ inflight' = Without(inflight, slot)
    /\ UNCHANGED <<users, jobs, job_seq>>

\* POST /api/applications, the request served without another in between
CreateApplication(user_id, data) ==
    \E existing \in FirstExisting(user_id, data) :
        LET c == ApplyChecks(user_id, data, existing)
        IN
        /\ UNCHANGED <<users, jobs, job_seq, inflight>>
        /\ IF c.code # 0 THEN
               /\ response' = [Resp("create_application", user_id, Get(data, "job_id", 0),
                                     "", c.code, c.error)
                                   EXCEPT !.ref = c.ref, !.status = c.status]
               /\ UNCHANGED <<applications, app_seq>>
           ELSE InsertApplication(user_id, data)

\* the applicant test letting every job seeker through
EverySeekerIsApplicant(application, user_id) == TRUE

\* lines 267 and 386: the caller is the applicant
IsApplicant(application, user_id) == application.applicant_id = user_id

\* the status test of withdraw left out
AlwaysWithdrawable(application) == TRUE

\* line 274: only a pending application can be withdrawn
Withdrawable(application) == application.status = PENDING

\* the status test of delete also letting pending rows go
DeletableUnlessDecided(application) == application.status \in {PENDING, WITHDRAWN}

\* line 393: only a withdrawn application can be deleted
Deletable(application) == application.status = WITHDRAWN

\* POST /api/applications/<application_id>/withdraw
WithdrawApplication(user_id, application_id) ==
    LET op(code, error) == Resp("withdraw_application", user_id, application_id, "", code, error)
        role == JobSeekerRequired(user_id)
    IN
    /\ UNCHANGED <<users, jobs, job_seq, app_seq, inflight>>
    /\ IF role # Pass THEN
           /\ response' = op(role.code, role.error)
           /\ UNCHANGED applications
       ELSE IF application_id \notin DOMAIN applications THEN
           /\ response' = op(404, "Application not found")
           /\ UNCHANGED applications
       ELSE IF ~IsApplicant(applications[application_id], user_id) THEN
           /\ response' = op(403, "Access denied")
           /\ UNCHANGED applications
       ELSE IF ~Withdrawable(applications[application_id]) THEN
           /\ response' = op(400, "Cannot withdraw application")
           /\ UNCHANGED applications
       ELSE
           /\ applications' = [applications EXCEPT ![application_id].status = WITHDRAWN]
           /\ response' = [op(200, "") EXCEPT !.ref = application_id, !.status = WITHDRAWN]

\* PUT /api/applications/<application_id>/status
UpdateApplicationStatus(user_id, application_id, data) ==
    LET new_status == LowerWord(Get(data, "status", ""))
        op(code, error) ==
            Resp("update_application_status", user_id, application_id, new_status, code, error)
        role == EmployerRequired(user_id)
        owner == ResourceOwnerOrEmployerRequired(applications, user_id, application_id)
    IN
    /\ UNCHANGED <<users, jobs, job_seq, app_seq, inflight>>
    /\ IF role # Pass THEN
           /\ response' = op(role.code, role.error)
           /\ UNCHANGED applications
       ELSE IF owner # Pass THEN
           /\ response' = op(owner.code, owner.error)
           /\ UNCHANGED applications
       ELSE IF application_id \notin DOMAIN applications THEN
           /\ response' = op(404, "Application not found")
           /\ UNCHANGED applications
       ELSE IF "status" \notin DOMAIN data THEN
           /\ response' = op(400, "Missing status")
           /\ UNCHANGED applications
       ELSE IF new_status \notin {ACCEPTED, REJECTED} THEN
           /\ response' = op(400, "Invalid status")
           /\ UNCHANGED applications
       ELSE IF applications[application_id].status # PENDING THEN
           /\ response' = op(400, "Cannot update status")
           /\ UNCHANGED applications
       ELSE
           /\ applications' = [applications EXCEPT ![application_id].status = new_status]
           /\ response' = [op(200, "") EXCEPT !.ref = application_id, !.status = new_status]

\* DELETE /api/applications/<application_id>
DeleteApplication(user_id, application_id) ==
    LET op(code, error) == Resp("delete_application", user_id, application_id, "", code, error)
        role == JobSeekerRequired(user_id)
    IN
    /\ UNCHANGED <<users, jobs, job_seq, app_seq, inflight>>
    /\ IF role # Pass THEN
           /\ response' = op(role.code, role.error)
           /\ UNCHANGED applications
       ELSE IF application_id \notin DOMAIN applications THEN
           /\ response' = op(404, "Application not found")
           /\ UNCHANGED applications
       ELSE IF ~IsApplicant(applications[application_id], user_id) THEN
           /\ response' = op(403, "Access denied")
           /\ UNCHANGED applications
       ELSE IF ~Deletable(applications[application_id]) THEN
           /\ response' = op(400, "Cannot delete application")
           /\ UNCHANGED applications
       ELSE
           /\ applications' = Without(applications, application_id)
           /\ response' = [op(200, "") EXCEPT !.ref = application_id]

\* the scope query with the employer's join left unfiltered: an employer is
\* given the applications to every job
ApplicationsOfAnyEmployer(user) ==
    IF user.role = JOB_SEEKER
    THEN {a \in DOMAIN applications : applications[a].applicant_id = user.id}
    ELSE {a \in DOMAIN applications : applications[a].job_id \in DOMAIN jobs}

\* lines 136-141 of get_my_applications: the base query of the caller's role,
\* filter_by(applicant_id=user.id) or join(Job).filter(Job.employer_id == user.id)
ApplicationsInScope(user) ==
    IF user.role = JOB_SEEKER
    THEN {a \in DOMAIN applications : applications[a].applicant_id = user.id}
    ELSE {a \in DOMAIN applications :
             /\ applications[a].job_id \in DOMAIN jobs
             /\ jobs[applications[a].job_id].employer_id = user.id}

\* GET /api/applications, args the query string
GetMyApplications(user_id, args) ==
    LET op(code, error) ==
            [Resp("get_my_applications", user_id, NoId, "", code, error)
                EXCEPT !.args = args]
        page == Get(args, "page", 1)
        per_page == Get(args, "per_page", 10)
        status == LowerWord(Get(args, "status", ""))
        job_id == Get(args, "job_id", 0)
        rows == {a \in ApplicationsInScope(users[user_id]) :
                    /\ (status # "" /\ status \in Statuses)
                           => applications[a].status = status
                    /\ job_id # 0 => applications[a].job_id = job_id}
    IN
    /\ UNCHANGED <<store, job_seq, app_seq, inflight>>
    /\ IF user_id \notin DOMAIN users THEN response' = op(404, "User not found")
       ELSE IF users[user_id].role \notin {JOB_SEEKER, EMPLOYER}
       THEN response' = op(400, "Invalid role")
       ELSE response' = [op(200, "") EXCEPT
                            !.items = Paginate(NewestFirst(rows), page, per_page),
                            !.total = Cardinality(rows)]

\* the access test with the job seeker's branch dropped: a job seeker may
\* view every application
MayViewAsAnySeeker(user, application) ==
    IF user.role = JOB_SEEKER THEN Pass
    ELSE IF user.role = EMPLOYER
    THEN IF jobs[application.job_id].employer_id # user.id
         THEN Deny(403, "Access denied") ELSE Pass
    ELSE Deny(400, "Invalid role")

\* lines 212-231 of get_application: the access rights of the caller's role
MayView(user, application) ==
    IF user.role = JOB_SEEKER
    THEN IF application.applicant_id # user.id
         THEN Deny(403, "Access denied") ELSE Pass
    ELSE IF user.role = EMPLOYER
    THEN IF jobs[application.job_id].employer_id # user.id
         THEN Deny(403, "Access denied") ELSE Pass
    ELSE Deny(400, "Invalid role")

\* GET /api/applications/<application_id>
GetApplication(user_id, application_id) ==
    LET op(code, error) == Resp("get_application", user_id, application_id, "", code, error)
        access == MayView(users[user_id], applications[application_id])
    IN
    /\ UNCHANGED <<store, job_seq, app_seq, inflight>>
    /\ IF user_id \notin DOMAIN users THEN response' = op(404, "User not found")
       ELSE IF application_id \notin DOMAIN applications
       THEN response' = op(404, "Application not found")
       ELSE IF access # Pass THEN response' = op(access.code, access.error)
       ELSE response' = [op(200, "") EXCEPT
                            !.ref = application_id,
                            !.status = applications[application_id].status]

\* GET /api/applications/job/<job_id>/check; first() returns one of the
\* caller's applications to the job
CheckApplicationStatus(user_id, job_id) ==
    LET op(code, error) ==
            Resp("check_application_status", user_id, job_id, "", code, error)
        role == JobSeekerRequired(user_id)
        found == ExistingApplications(job_id, user_id)
    IN
    /\ UNCHANGED <<store, job_seq, app_seq, inflight>>
    /\ IF role # Pass THEN response' = op(role.code, role.error)
       ELSE IF job_id \notin DOMAIN jobs THEN response' = op(404, "Job not found")
       ELSE IF found = {} THEN response' = op(200, "")
       ELSE \E a \in found :
               response' = [op(200, "") EXCEPT
                               !.ref = a, !.status = applications[a].status]

\* ------------------------------------------------------------ auth.py

\* the character occurs in the string: c in s
HasChar(s, c) == \E i \in DOMAIN s : s[i] = c

\* the email kept as typed but for the blanks around it
TrimmedEmail(data) == Strip(Get(data, "email", Str0))

\* data.get('email', '').strip().lower()
NormalEmail(data) == Lower(Strip(Get(data, "email", Str0)))

\* User.query.filter_by(email=email): the users with exactly that email
UsersWithEmail(email) == {u \in DOMAIN users : users[u].email = email}

\* lines 33-81 of register: the answer of the checks that precede the
\* insert, Pass when the request goes on to it
RegisterChecks(data) ==
    LET email == NormalEmail(data)
        password == Get(data, "password", Str0)
        role == LowerWord(Get(data, "role", ""))
        company_name == Strip(Get(data, "company_name", Str0))
    IN
    IF DOMAIN data = {} THEN Deny(400, "No data provided")
    ELSE IF \/ email = <<>> \/ ~HasChar(email, "@") \/ ~HasChar(email, ".")
            \/ password = <<>> \/ Len(password) < 8
            \/ role = "" \/ role \notin {EMPLOYER, JOB_SEEKER}
            \/ (role = EMPLOYER /\ company_name = <<>>)
    THEN Deny(400, "Validation failed")
    ELSE IF UsersWithEmail(email) # {} THEN Deny(409, "Email already registered")
    ELSE Pass

\* User(...) of register and set_password
NewUser(id, data, salt) ==
    [id |-> id,
     email |-> NormalEmail(data),
     role |-> LowerWord(Get(data, "role", "")),
     company_name |-> Strip(Get(data, "company_name", Str0)),
     password_hash |-> GeneratePasswordHash(Get(data, "password", Str0), salt)]

\* the answer of register, with the request body
RegisterAnswer(data, code, error) ==
    [Resp("register", NoId, NoId, "", code, error) EXCEPT !.args = data]

\* lines 83-114 of register: the insert and its commit.  users.email is
\* unique: the commit of a second row with a stored email raises, and the
\* handler rolls back and answers 500.
InsertUser(data) ==
    LET id == Cardinality(DOMAIN users) + 1
    IN
    IF UsersWithEmail(NormalEmail(data)) # {} THEN
        /\ response' = RegisterAnswer(data, 500, "Registration failed")
        /\ UNCHANGED users
    ELSE
        /\ Cardinality(DOMAIN users) < Cardinality(DOMAIN SampleUsers) + MaxRegistered
        /\ \E salt \in Salts : users' = users @@ (id :> NewUser(id, data, salt))
        /\ response' = [RegisterAnswer(data, 201, "") EXCEPT !.ref = id]

\* POST /api/auth/register, the request served without another in between
Register(data) ==
    LET c == RegisterChecks(data)
    IN
    /\ UNCHANGED <<jobs, applications, job_seq, app_seq, inflight>>
    /\ IF c # Pass THEN
           /\ response' = RegisterAnswer(data, c.code, c.error)
           /\ UNCHANGED users
       ELSE InsertUser(data)

\* POST /api/auth/register up to the email check (lines 33-81): a request
\* that passes it goes on to the insert while other requests are served
RegisterCheck(data) ==
    LET c == RegisterChecks(data)
    IN
    /\ UNCHANGED <<store, job_seq, app_seq>>
    /\ IF c # Pass THEN
           /\ response' = RegisterAnswer(data, c.code, c.error)
           /\ UNCHANGED inflight
       ELSE
           /\ Cardinality(DOMAIN inflight) < MaxInflight
           /\ inflight' = inflight @@ (FreeSlot :> [user_id |-> NoId, data |-> data])
           /\ UNCHANGED response

\* POST /api/auth/register from the insert on (lines 83-114), for a request
\* that passed the checks
RegisterCommit(slot) ==
    /\ slot \in DOMAIN inflight
    /\ InsertUser(inflight[slot].data)
    /\ inflight' = Without(inflight, slot)
    /\ UNCHANGED <<jobs, applications, job_seq, app_seq>>

\* an answer that tells the caller the email is not registered
NoSuchUserRevealed ==
    [code |-> 404, error |-> "User not found",
     message |-> "No account found with this email"]

\* lines 149-154 of login: no user has the email
NoSuchUser ==
    [code |-> 401, error |-> "Authentication failed",
     message |-> "Invalid email or password"]

\* lines 156-161 of login: the password does not check
WrongPassword ==
    [code |-> 401, error |-> "Authentication failed",
     message |-> "Invalid email or password"]

\* POST /api/auth/login
Login(data) ==
    LET op(answer) ==
            [Resp("login", NoId, NoId, "", answer.code, answer.error)
                EXCEPT !.args = data, !.message = answer.message]
        email == NormalEmail(data)
        password == Get(data, "password", Str0)
        found == UsersWithEmail(email)
    IN
    /\ UNCHANGED <<store, job_seq, app_seq, inflight>>
    /\ IF DOMAIN data = {}
       THEN response' = op([code |-> 400, error |-> "No data provided",
                            message |-> "Request body must contain JSON data"])
       ELSE IF email = <<>> \/ password = <<>>
       THEN response' = op([code |-> 400, error |-> "Missing credentials",
                            message |-> "Email and password are required"])
       ELSE IF found = {} THEN response' = op(NoSuchUser)
       ELSE \E u \in found :
               IF ~CheckPasswordHash(users[u].password_hash, password)
               THEN response' = op(WrongPassword)
               ELSE response' = [op([code |-> 200, error |-> "",
                                     message |-> "Login successful"])
                                    EXCEPT !.ref = u]

\* POST /api/auth/change-password
ChangePassword(user_id, data) ==
    LET op(code, error) ==
            [Resp("change_password", user_id, NoId, "", code, error) EXCEPT !.args = data]
        current_password == Get(data, "current_password", Str0)
        new_password == Get(data, "new_password", Str0)
    IN
    /\ UNCHANGED <<jobs, applications, job_seq, app_seq, inflight>>
    /\ IF user_id \notin DOMAIN users THEN
           /\ response' = op(404, "User not found")
           /\ UNCHANGED users
       ELSE IF DOMAIN data = {} THEN
           /\ response' = op(400, "No data provided")
           /\ UNCHANGED users
       ELSE IF current_password = <<>> \/ new_password = <<>> THEN
           /\ response' = op(400, "Missing credentials")
           /\ UNCHANGED users
       ELSE IF ~CheckPasswordHash(users[user_id].password_hash, current_password) THEN
           /\ response' = op(401, "Invalid password")
           /\ UNCHANGED users
       ELSE IF Len(new_password) < 8 THEN
           /\ response' = op(400, "Invalid password")
           /\ UNCHANGED users
       ELSE
           /\ \E salt \in Salts :
                 users' = [users EXCEPT ![user_id].password_hash =
                                            GeneratePasswordHash(new_password, salt)]
           /\ response' = op(200, "")

\* ------------------------------------------------------------ requests

TitleGood == <<" ", "C", "h", "e", "f", "s">>
TitleOther == <<"B", "a", "k", "e", "r">>
TitleShort == <<"D", "e", "v">>
TitleBlank == <<" ", " ">>
DescGood == <<"C", "o", "o", "k">>
LetterGood == <<"H", "i", " ">>

CreateJobRequests ==
    { [title |-> TitleGood, description |-> DescGood],
      [title |-> TitleShort, description |-> DescGood],
      <<>> }

UpdateJobRequests ==
    { [is_active |-> TRUE],
      [is_active |-> FALSE, employer_id |-> 3],
      [title |-> TitleBlank],
      [title |-> TitleOther, description |-> TitleBlank],
      <<>> }

JobIds == 1..MaxJobs
ApplicationIds == 1..MaxApps

ApplyRequests ==
    { [job_id |-> j, cover_letter |-> LetterGood] : j \in 0..MaxJobs } \cup { <<>> }

StatusRequests ==
    { [status |-> "accepted"], [status |-> "Rejected"], [status |-> "pending"],
      [note |-> "x"] }

\* query strings of GET /api/applications
MyApplicationsRequests ==
    { <<>>, [status |-> PENDING], [status |-> "Rejected"], [job_id |-> 1],
      [page |-> 2, per_page |-> 1] }

\* query strings of GET /api/jobs
AllJobsRequests ==
    { <<>>, [search |-> <<"h", "E">>], [location |-> <<"N", "a", "i">>],
      [job_type |-> <<"h", "y", "b", "r", "i", "d">>], [is_remote |-> "TRUE"],
      [is_remote |-> "no", employer_id |-> 3], [page |-> 2, per_page |-> 1] }

\* query strings of GET /api/jobs/my-jobs
MyJobsRequests == { <<>>, [include_inactive |-> "TRUE"] }

\* bodies of POST /api/jobs with every column of the posting filled in
CatalogCreateRequests ==
    { [title |-> TitleGood, description |-> DescGood,
       requirements |-> <<"C", "+", "+">>, salary_range |-> <<"9", "k">>,
       location |-> <<" ", "N", "a", "i">>, job_type |-> <<"F", "u", "l", "l">>,
       experience_level |-> <<"m", "i", "d">>, is_remote |-> FALSE],
      [title |-> TitleGood, description |-> TitleBlank],
      [title |-> TitleShort, description |-> DescGood],
      [description |-> DescGood],
      <<>> }

\* bodies of PUT /api/jobs/<job_id> that between them supply every column
CatalogUpdateRequests ==
    { [title |-> TitleOther, description |-> <<"B", "a", "k", "e", " ">>,
       requirements |-> <<>>, salary_range |-> <<"8", "k">>],
      [location |-> <<"H", "o", "m", "e">>, job_type |-> <<" ", "H", "y", "b", "r", "i", "d">>,
       experience_level |-> <<"N", "e", "w">>, is_remote |-> TRUE],
      [title |-> TitleShort],
      [is_active |-> FALSE],
      [is_active |-> TRUE],
      [title |-> TitleOther, description |-> TitleBlank],
      [description |-> DescGood, title |-> TitleBlank],
      <<>> }

\* a password nobody has yet, and one that is too short
NewPassword == <<"p", "a", "s", "s", "4", "5", "6", "7">>
ShortPassword == <<"p", "w", "1">>

\* bodies of POST /api/auth/register: a new job seeker, a new employer, the
\* email of a sample user in other letter case, an employer without a
\* company, a short password, an email without '@', and no body
RegisterRequests ==
    { [email |-> <<" ", "N", "e", "w", "@", "x", ".", "i", "o">>, password |-> NewPassword, role |-> JOB_SEEKER],
      [email |-> <<"h", "r", "@", "x", ".", "i", "o">>, password |-> NewPassword, role |-> "Employer",
       company_name |-> <<"A", "c", "m", "e">>],
      [email |-> <<"S", "e", "e", "k", "e", "r", "@", "E", "x", "a", "m", "p", "l", "e", ".", "c", "o", "m", " ">>, password |-> NewPassword, role |-> JOB_SEEKER],
      [email |-> <<"b", "o", "s", "s", "@", "x", ".", "i", "o">>, password |-> NewPassword, role |-> EMPLOYER],
      [email |-> <<"N", "e", "w", "@", "x", ".", "i", "o">>, password |-> ShortPassword, role |-> JOB_SEEKER],
      [email |-> <<"n", "e", "w", ".", "x", ".", "i", "o">>, password |-> NewPassword, role |-> JOB_SEEKER],
      <<>> }

\* bodies of POST /api/auth/login
LoginRequests ==
    { [email |-> e, password |-> pw] :
        e \in {<<" ", "S", "e", "e", "k", "e", "r", "@", "e", "x", "a", "m", "p", "l", "e", ".", "c", "o", "m">>, <<"N", "e", "w", "@", "x", ".", "i", "o">>, <<"g", "h", "o", "s", "t", "@", "x", ".", "i", "o">>},
        pw \in {SeekerPassword, NewPassword, <<>>} } \cup { <<>> }

\* bodies of POST /api/auth/change-password
ChangePasswordRequests ==
    { [current_password |-> c, new_password |-> n] :
        c \in {SeekerPassword, NewPassword},
        n \in {NewPassword, ShortPassword} }
    \cup { [current_password |-> NewPassword, new_password |-> SeekerPassword],
           [current_password |-> SeekerPassword], <<>> }

\* ------------------------------------------------------------ specification

\* the server takes the next request once the answer to the last one is out
Idle == response = NoResponse

\* main.py, app.run: the answer leaves and the next request is served
Reply ==
    /\ ~Idle
    /\ response' = NoResponse
    /\ UNCHANGED <<store, job_seq, app_seq, inflight>>

Next ==
    \/ Reply
    \/ Idle /\ \E u \in Callers, data \in CreateJobRequests : CreateJob(u, data)
    \/ Idle /\ \E u \in Callers, j \in JobIds, data \in UpdateJobRequests :
                  UpdateJob(u, j, data)
    \/ Idle /\ \E u \in Callers, j \in JobIds, hard \in {"false", "TRUE"} :
                  DeleteJob(u, j, hard)
    \/ Idle /\ \E u \in Callers, j \in JobIds, status \in {"", PENDING} :
                  GetJobApplications(u, j, status, 1, 10)
    \/ Idle /\ \E u \in Callers, data \in ApplyRequests : CreateApplication(u, data)
    \/ Idle /\ \E u \in Callers, a \in ApplicationIds : WithdrawApplication(u, a)
    \/ Idle /\ \E u \in Callers, a \in ApplicationIds, data \in StatusRequests :
                  UpdateApplicationStatus(u, a, data)
    \/ Idle /\ \E u \in Callers, a \in ApplicationIds : DeleteApplication(u, a)
    \/ Idle /\ \E u \in Callers, args \in MyApplicationsRequests : GetMyApplications(u, args)
    \/ Idle /\ \E u \in Callers, a \in ApplicationIds : GetApplication(u, a)
    \/ Idle /\ \E u \in Callers, j \in JobIds : CheckApplicationStatus(u, j)
    \/ Idle /\ \E u \in Callers, args \in AllJobsRequests : GetAllJobs(u, args)
    \/ Idle /\ \E u \in Callers, j \in JobIds : GetJob(u, j)
    \/ Idle /\ \E u \in Callers, args \in MyJobsRequests : GetMyJobs(u, args)

Spec == Init /\ [][Next]_vars

\* the job catalog on its own, with requests that reach every column of a job
NextCatalog ==
    \/ Reply
    \/ Idle /\ \E u \in Callers, data \in CatalogCreateRequests : CreateJob(u, data)
    \/ Idle /\ \E u \in Callers, j \in JobIds, data \in CatalogUpdateRequests :
                  UpdateJob(u, j, data)
    \/ Idle /\ \E u \in Callers, j \in JobIds, hard \in {"false", "TRUE"} :
                  DeleteJob(u, j, hard)
    \/ Idle /\ \E u \in Callers, args \in AllJobsRequests : GetAllJobs(u, args)
    \/ Idle /\ \E u \in Callers, j \in JobIds : GetJob(u, j)
    \/ Idle /\ \E u \in Callers, args \in MyJobsRequests : GetMyJobs(u, args)

SpecCatalog == Init /\ [][NextCatalog]_vars

\* the except block answering with some other code than 500
InternalErrorAsConflict(op, user, id, error) == Resp(op, user, id, "", 409, error)

\* except Exception: db.session.rollback(); return jsonify({'error': ...}), 500
InternalError(op, user, id, error) == Resp(op, user, id, "", 500, error)

\* a handler served while db.session.commit() raises: a request that would
\* reach the commit is rolled back and answered 500, any other request is
\* answered as ever
CommitRaises(handler, op, user, id, error) ==
    IF ENABLED (handler /\ response'.code \in {200, 201})
    THEN /\ response' = InternalError(op, user, id, error)
         /\ UNCHANGED <<store, job_seq, app_seq, inflight>>
    ELSE handler

\* the mutating handlers, each served with its commit going through or raising
NextFault ==
    \/ Reply
    \/ Idle /\ \E u \in Callers, data \in CreateJobRequests : CreateJob(u, data)
    \/ Idle /\ \E u \in Callers, data \in ApplyRequests : CreateApplication(u, data)
    \/ Idle /\ \E u \in Callers, a \in ApplicationIds : WithdrawApplication(u, a)
    \/ Idle /\ \E data \in RegisterRequests :
                  CommitRaises(Register(data), "register", NoId, NoId,
                               "Registration failed")
    \/ Idle /\ \E u \in Callers, data \in ChangePasswordRequests :
                  CommitRaises(ChangePassword(u, data), "change_password", u, NoId,
                               "Password change failed")
    \/ Idle /\ \E u \in Callers, data \in CreateJobRequests :
                  CommitRaises(CreateJob(u, data), "create_job", u, NoId,
                               "Failed to create job")
    \/ Idle /\ \E u \in Callers, j \in JobIds, data \in UpdateJobRequests :
                  CommitRaises(UpdateJob(u, j, data), "update_job", u, j,
                               "Failed to update job")
    \/ Idle /\ \E u \in Callers, j \in JobIds, hard \in {"false", "TRUE"} :
                  CommitRaises(DeleteJob(u, j, hard), "delete_job", u, j,
                               "Failed to delete job")
    \/ Idle /\ \E u \in Callers, data \in ApplyRequests :
                  CommitRaises(CreateApplication(u, data), "create_application", u,
                               Get(data, "job_id", 0), "Failed to submit application")
    \/ Idle /\ \E u \in Callers, a \in ApplicationIds :
                  CommitRaises(WithdrawApplication(u, a), "withdraw_application", u, a,
                               "Failed to withdraw application")
    \/ Idle /\ \E u \in Callers, a \in ApplicationIds, data \in StatusRequests :
                  CommitRaises(UpdateApplicationStatus(u, a, data),
                               "update_application_status", u, a,
                               "Failed to update application status")
    \/ Idle /\ \E u \in Callers, a \in ApplicationIds :
                  CommitRaises(DeleteApplication(u, a), "delete_application", u, a,
                               "Failed to delete application")

SpecFault == Init /\ [][NextFault]_vars

\* registration, login and the change of password, requests served one at a time
NextAuth ==
    \/ Reply
    \/ Idle /\ \E data \in RegisterRequests : Register(data)
    \/ Idle /\ \E data \in LoginRequests : Login(data)
    \/ Idle /\ \E u \in Callers, data \in ChangePasswordRequests : ChangePassword(u, data)

SpecAuth == Init /\ [][NextAuth]_vars

\* register requests served concurrently: a request may pass the email check
\* and commit only after other requests were served
NextAuthRace ==
    \/ Reply
    \/ Idle /\ \E data \in RegisterRequests : Register(data)
    \/ Idle /\ \E data \in RegisterRequests : RegisterCheck(data)
    \/ Idle /\ \E slot \in 1..MaxInflight : RegisterCommit(slot)
    \/ Idle /\ \E data \in LoginRequests : Login(data)

SpecAuthRace == Init /\ [][NextAuthRace]_vars

\* requests served concurrently: an apply request may pass its checks and
\* commit only after other requests were served
NextRace ==
    \/ Reply
    \/ Idle /\ \E u \in Callers, data \in CreateJobRequests : CreateJob(u, data)
    \/ Idle /\ \E u \in Callers, data \in ApplyRequests : CreateApplicationCheck(u, data)
    \/ Idle /\ \E slot \in 1..MaxInflight : CreateApplicationCommit(slot)
    \/ Idle /\ \E u \in Callers, a \in ApplicationIds : WithdrawApplication(u, a)
    \/ Idle /\ \E u \in Callers, a \in ApplicationIds : DeleteApplication(u, a)

SpecRace == Init /\ [][NextRace]_vars

\* ------------------------------------------------------------ properties

\* the request answered by the step, read off the answer it leaves
Served(op) == response'.op = op

\* the stored applications of a seeker for a job
ApplicationsFor(j, u) ==
    {a \in DOMAIN applications :
        applications[a].job_id = j /\ applications[a].applicant_id = u}

\* the employer owning the job an application refers to
JobOwner(a) == jobs[applications[a].job_id].employer_id

\* the caller is the employer owning the job of the stored application a
IsOwningEmployer(u, a) ==
    /\ a \in DOMAIN applications
    /\ users[u].role = EMPLOYER
    /\ applications[a].job_id \in DOMAIN jobs
    /\ JobOwner(a) = u

\* C1: decide by the employer owning the application's job, on a pending
\* application with a new status of accepted or rejected, succeeds and sets
\* the application's status to the new status.
C1_OwnerDecides ==
    [][ (/\ Served("update_application_status")
         /\ IsOwningEmployer(response'.user, response'.id)
         /\ applications[response'.id].status = PENDING
         /\ response'.arg \in {ACCEPTED, REJECTED})
        => (/\ response'.code = 200
            /\ applications'[response'.id].status = response'.arg) ]_vars

C3_OnePerPair ==
    \A a, b \in DOMAIN applications :
        (/\ applications[a].job_id = applications[b].job_id
         /\ applications[a].applicant_id = applications[b].applicant_id)
        => a = b

\* C4: decide by an employer who does not own the application's job is
\* answered Forbidden and changes nothing, and a status becomes accepted or
\* rejected only in a decide request of the employer owning the job.
C4_OnlyOwnerDecides ==
    [][ /\ (/\ Served("update_application_status")
            /\ response'.id \in DOMAIN applications
            /\ users[response'.user].role = EMPLOYER
            /\ JobOwner(response'.id) # response'.user)
           => (response'.code = 403 /\ store' = store)
        /\ \A a \in DOMAIN applications \cap DOMAIN applications' :
              (/\ applications'[a].status \in {ACCEPTED, REJECTED}
               /\ applications'[a].status # applications[a].status)
              => (/\ Served("update_application_status")
                  /\ response'.id = a
                  /\ response'.user = JobOwner(a)) ]_vars

\* an employer who does not own the job was refused on a pending application
C4_Witness ==
    /\ response.op = "update_application_status"
    /\ response.arg = ACCEPTED
    /\ response.code = 403
    /\ response.id \in DOMAIN applications
    /\ users[response.user].role = EMPLOYER
    /\ JobOwner(response.id) # response.user
    /\ applications[response.id].status = PENDING

\* C5: decide by the owning employer on an application that is not pending
\* is answered with the domain error (400, the status cannot be updated) and
\* leaves every stored row unchanged.
C5_DecideOnlyPending ==
    [][ (/\ Served("update_application_status")
         /\ IsOwningEmployer(response'.user, response'.id)
         /\ applications[response'.id].status # PENDING
         /\ response'.arg \in {ACCEPTED, REJECTED})
        => (/\ response'.code = 400
            /\ response'.error = "Cannot update status"
            /\ store' = store) ]_vars

\* withdraw would succeed: the application exists, is pending, and the
\* caller is the job seeker who applied
CanWithdraw(u, a) ==
    /\ a \in DOMAIN applications
    /\ users[u].role = JOB_SEEKER
    /\ applications[a].applicant_id = u
    /\ applications[a].status = PENDING

\* C6: withdraw succeeds, setting the status to withdrawn, exactly when the
\* application exists, the caller is the job seeker who applied and the
\* status is pending; for a job seeker an absent application is NotFound, for
\* any caller but the applicant it is Forbidden, for the applicant on a
\* status other than pending it is the domain error; a failing withdraw
\* changes nothing.
C6_Withdraw ==
    [][ Served("withdraw_application") =>
        LET u == response'.user
            a == response'.id
        IN
        /\ response'.code = 200 <=> CanWithdraw(u, a)
        /\ CanWithdraw(u, a) =>
              /\ applications' = [applications EXCEPT ![a].status = WITHDRAWN]
              /\ UNCHANGED <<users, jobs>>
        /\ ~CanWithdraw(u, a) => store' = store
        /\ (users[u].role = JOB_SEEKER /\ a \notin DOMAIN applications)
              => response'.code = 404
        /\ (a \in DOMAIN applications /\ applications[a].applicant_id # u)
              => response'.code = 403
        /\ (a \in DOMAIN applications /\ applications[a].applicant_id = u
             /\ applications[a].status # PENDING)
              => (response'.code = 400 /\ response'.error = "Cannot withdraw application") ]_vars

\* the applicant was refused a second withdraw of a withdrawn application
C6_Witness ==
    /\ response.op = "withdraw_application"
    /\ response.code = 400
    /\ response.id \in DOMAIN applications
    /\ applications[response.id].applicant_id = response.user
    /\ applications[response.id].status = WITHDRAWN

\* C7: an application row is removed only by a delete of its applicant while
\* its status is withdrawn; that delete succeeds and removes exactly the row;
\* a delete by the applicant on any other status is the domain error and
\* changes nothing.
C7_Delete ==
    [][ /\ \A a \in DOMAIN applications :
              a \notin DOMAIN applications'
              => (/\ Served("delete_application")
                  /\ response'.id = a
                  /\ response'.user = applications[a].applicant_id
                  /\ applications[a].status = WITHDRAWN)
        /\ (/\ Served("delete_application")
            /\ response'.id \in DOMAIN applications
            /\ applications[response'.id].applicant_id = response'.user)
           => IF applications[response'.id].status = WITHDRAWN
              THEN /\ response'.code = 200
                   /\ applications' = Without(applications, response'.id)
                   /\ UNCHANGED <<users, jobs>>
              ELSE /\ response'.code = 400
                   /\ response'.error = "Cannot delete application"
                   /\ store' = store ]_vars

\* the applicant deleted an application after withdrawing it
C7_Witness ==
    /\ response.op = "delete_application"
    /\ response.code = 200
    /\ response.id \notin DOMAIN applications
    /\ response.id <= app_seq

\* C8: with requests served one at a time, apply by a job seeker who already
\* has an application for the active job, whatever its status, is answered
\* Conflict with that application's id and status, and no row is added.
C8_ApplyTwiceConflicts ==
    [][ (/\ Served("create_application")
         /\ users[response'.user].role = JOB_SEEKER
         /\ response'.id \in DOMAIN jobs
         /\ jobs[response'.id].is_active
         /\ ApplicationsFor(response'.id, response'.user) # {})
        => (/\ response'.code = 409
            /\ response'.ref \in ApplicationsFor(response'.id, response'.user)
            /\ response'.status = applications[response'.ref].status
            /\ store' = store) ]_vars

\* a second apply met the seeker's withdrawn application for the job
C8_Witness ==
    /\ response.op = "create_application"
    /\ response.code = 409
    /\ response.ref \in ApplicationsFor(response.id, response.user)
    /\ response.status = WITHDRAWN

\* C9: apply to a stored job that is not active never creates an application
\* and, for every job seeker, with or without an application for the pair,
\* is answered 'Job not available'; apply by a job seeker to a job id that
\* is not stored is NotFound.
C9_ApplyNeedsActiveJob ==
    [][ Served("create_application") =>
        LET u == response'.user
            j == response'.id
        IN
        /\ (j \in DOMAIN jobs /\ ~jobs[j].is_active)
              => /\ response'.code # 201
                 /\ store' = store
                 /\ users[u].role = JOB_SEEKER
                      => (response'.code = 400 /\ response'.error = "Job not available")
        /\ (j # 0 /\ j \notin DOMAIN jobs /\ users[u].role = JOB_SEEKER)
              => (response'.code = 404 /\ store' = store) ]_vars

\* a seeker with an application for a deactivated job was refused a new one
C9_Witness ==
    /\ response.op = "create_application"
    /\ response.error = "Job not available"
    /\ response.id \in DOMAIN jobs
    /\ ~jobs[response.id].is_active
    /\ ApplicationsFor(response.id, response.user) # {}

\* C10: job update, job delete (soft or hard) and the listing of a job's
\* applications by any user who is not the job's employer are answered
\* Forbidden and change nothing; a job row changes or goes only in a request
\* of its employer.
C10_OnlyOwnerTouchesJob ==
    [][ /\ (/\ response'.op \in {"update_job", "delete_job", "get_job_applications"}
            /\ response'.id \in DOMAIN jobs
            /\ jobs[response'.id].employer_id # response'.user)
           => (response'.code = 403 /\ store' = store)
        /\ \A j \in DOMAIN jobs :
              (j \notin DOMAIN jobs' \/ jobs'[j] # jobs[j])
              => response'.user = jobs[j].employer_id ]_vars

\* another employer was refused the hard delete of a job
C10_Witness ==
    /\ response.op = "delete_job"
    /\ response.arg = "true"
    /\ response.code = 403
    /\ response.id \in DOMAIN jobs
    /\ users[response.user].role = EMPLOYER
    /\ jobs[response.id].employer_id # response.user

\* the caller may see the stored application a: its applicant, or the
\* employer of the job it refers to
InCallersScope(u, a) ==
    \/ users[u].role = JOB_SEEKER /\ applications[a].applicant_id = u
    \/ users[u].role = EMPLOYER /\ JobOwner(a) = u

\* C11: get of an application answers NotFound when it is absent, returns it
\* to its applicant (a job seeker) and to the employer owning its job, and
\* answers Forbidden to any other job seeker or employer; nothing is changed.
C11_GetApplication ==
    [][ Served("get_application")
        => LET u == response'.user
               a == response'.id
           IN /\ store' = store
              /\ IF a \notin DOMAIN applications THEN response'.code = 404
                 ELSE IF InCallersScope(u, a)
                 THEN response'.code = 200 /\ response'.ref = a
                 ELSE response'.code = 403 ]_vars

\* a job seeker was refused another job seeker's application
C11_Witness ==
    /\ response.op = "get_application"
    /\ response.code = 403
    /\ response.id \in DOMAIN applications
    /\ users[response.user].role = JOB_SEEKER
    /\ applications[response.id].applicant_id # response.user

\* the stored applications the filters of a listing request let through
MatchesFilters(args, a) ==
    /\ ("status" \in DOMAIN args /\ LowerWord(args["status"]) \in Statuses)
           => applications[a].status = LowerWord(args["status"])
    /\ ("job_id" \in DOMAIN args /\ args["job_id"] # 0)
           => applications[a].job_id = args["job_id"]

\* C12: the listing of the caller's applications returns only applications
\* in the caller's scope (a job seeker's own, an employer's jobs') that match
\* the filters; its total counts all of them, and a first page that is large
\* enough holds every one of them.
C12_ListMineScope ==
    [][ Served("get_my_applications")
        => LET u == response'.user
               args == response'.args
               listed == {response'.items[i] : i \in DOMAIN response'.items}
               expected == {a \in DOMAIN applications :
                               InCallersScope(u, a) /\ MatchesFilters(args, a)}
           IN /\ response'.code = 200
              /\ listed \subseteq expected
              /\ response'.total = Cardinality(expected)
              /\ (Get(args, "page", 1) = 1
                   /\ Get(args, "per_page", 10) >= Cardinality(expected))
                 => listed = expected ]_vars

\* a caller was listed some applications while the store holds one outside
\* the caller's scope
C12_Witness ==
    /\ response.op = "get_my_applications"
    /\ response.args = <<>>
    /\ response.items # <<>>
    /\ \E a \in DOMAIN applications : ~InCallersScope(response.user, a)

\* C13: apply, withdraw, delete of an application and the status check asked
\* by an employer, and job create, update, delete, the employer's job list,
\* the listing of a job's applications and decide asked by a job seeker, are
\* answered Forbidden and change nothing.
C13_RoleGating ==
    [][ ( \/ /\ response'.op \in {"create_application", "withdraw_application",
                                  "delete_application", "check_application_status"}
             /\ users[response'.user].role = EMPLOYER
          \/ /\ response'.op \in {"create_job", "update_job", "delete_job",
                                  "get_my_jobs", "get_job_applications",
                                  "update_application_status"}
             /\ users[response'.user].role = JOB_SEEKER )
        => (response'.code = 403 /\ store' = store) ]_vars

\* the employer of a job asked whether they applied to it and was refused
C13_Witness ==
    /\ response.op = "check_application_status"
    /\ response.code = 403
    /\ response.id \in DOMAIN jobs
    /\ jobs[response.id].employer_id = response.user

\* C14: the job list holds only stored jobs that are active, and get of a
\* job that is absent or inactive answers NotFound to every caller, its
\* employer included.
C14_InactiveInvisible ==
    [][ /\ Served("get_all_jobs")
           => \A i \in DOMAIN response'.items :
                  /\ response'.items[i] \in DOMAIN jobs
                  /\ jobs[response'.items[i]].is_active
        /\ (/\ Served("get_job")
            /\ (response'.id \notin DOMAIN jobs \/ ~jobs[response'.id].is_active))
           => response'.code = 404 ]_vars

\* the employer of an inactive job was answered NotFound on get of it
C14_Witness ==
    /\ response.op = "get_job"
    /\ response.code = 404
    /\ response.id \in DOMAIN jobs
    /\ ~jobs[response.id].is_active
    /\ jobs[response.id].employer_id = response.user

\* C15: every stored job has a title of at least 5 characters and a
\* description that is not empty.
C15_StoredJobsValid ==
    \A j \in DOMAIN jobs :
        Len(jobs[j].title) >= 5 /\ jobs[j].description # <<>>

\* C16: job create by an employer is answered with a validation error and
\* stores nothing when the trimmed title is shorter than 5 characters or the
\* trimmed description is empty; otherwise it stores exactly one new job,
\* owned by the caller and active.
C16_CreateJob ==
    [][ (Served("create_job") /\ users[response'.user].role = EMPLOYER)
        => LET data == response'.args
               title == Strip(Get(data, "title", Str0))
               description == Strip(Get(data, "description", Str0))
               j == response'.ref
           IN IF Len(title) < 5 \/ description = <<>>
              THEN response'.code = 400 /\ store' = store
              ELSE /\ response'.code = 201
                   /\ j \notin DOMAIN jobs
                   /\ DOMAIN jobs' = DOMAIN jobs \cup {j}
                   /\ \A k \in DOMAIN jobs : jobs'[k] = jobs[k]
                   /\ jobs'[j].employer_id = response'.user
                   /\ jobs'[j].is_active
                   /\ jobs'[j].title = title
                   /\ jobs'[j].description = description
                   /\ users' = users
                   /\ applications' = applications ]_vars

\* an employer's create stored a job
C16_Witness ==
    /\ response.op = "create_job"
    /\ response.code = 201
    /\ response.ref \in DOMAIN jobs
    /\ jobs[response.ref].employer_id = response.user
    /\ jobs[response.ref].is_active

\* the columns of a job a request may supply
JobColumns ==
    {"title", "description", "requirements", "salary_range", "location",
     "job_type", "experience_level", "is_remote", "is_active"}

\* the value a supplied column holds once written: text trimmed, job_type
\* and experience_level lower-cased as well
Written(column, value) ==
    IF column \in {"title", "description", "requirements", "salary_range", "location"}
    THEN Strip(value)
    ELSE IF column \in {"job_type", "experience_level"} THEN Lower(Strip(value))
    ELSE value

C19_HardDelete ==
    [][ /\ (/\ Served("delete_job")
            /\ response'.arg = "true"
            /\ response'.id \in DOMAIN jobs
            /\ jobs[response'.id].employer_id = response'.user)
           => (response'.code = 200 /\ response'.id \notin DOMAIN jobs')
        /\ \A j \in 1..job_seq : j \notin DOMAIN jobs => j \notin DOMAIN jobs'
        /\ (Served("get_job") /\ response'.code = 200) => response'.id \in DOMAIN jobs
        /\ response'.op \in {"get_all_jobs", "get_my_jobs"}
           => \A i \in DOMAIN response'.items : response'.items[i] \in DOMAIN jobs ]_vars

\* C20: a request answered with a validation error, Forbidden or NotFound
\* leaves the users, jobs and applications as stored; so does a job update
\* with a valid title and an empty description, which is rejected.
C20_ErrorsChangeNothing ==
    [][ /\ response'.code \in {400, 403, 404} => store' = store
        /\ (/\ Served("update_job")
            /\ response'.id \in DOMAIN jobs
            /\ jobs[response'.id].employer_id = response'.user
            /\ "title" \in DOMAIN response'.args
            /\ "description" \in DOMAIN response'.args
            /\ Len(Strip(response'.args["title"])) >= 5
            /\ Strip(response'.args["description"]) = <<>>)
           => (response'.code = 400 /\ jobs'[response'.id].title = jobs[response'.id].title) ]_vars

\* an update with a new valid title and an empty description was rejected
C20_Witness ==
    /\ response.op = "update_job"
    /\ response.code = 400
    /\ response.id \in DOMAIN jobs
    /\ "title" \in DOMAIN response.args
    /\ "description" \in DOMAIN response.args
    /\ Len(Strip(response.args["title"])) >= 5
    /\ Strip(response.args["title"]) # jobs[response.id].title
    /\ Strip(response.args["description"]) = <<>>

\* the 'error' texts of the except blocks that follow a commit
CommitFailures ==
    {"Registration failed", "Password change failed", "Failed to create job",
     "Failed to update job", "Failed to delete job", "Failed to submit application",
     "Failed to withdraw application", "Failed to update application status",
     "Failed to delete application"}

NoTwoUsersShareEmail ==
    \A u, v \in DOMAIN users :
        u # v => Lower(users[u].email) # Lower(users[v].email)

\* the body passes the field validation of register
WellFormedRegistration(data) ==
    /\ DOMAIN data # {}
    /\ HasChar(Get(data, "email", Str0), "@")
    /\ HasChar(Get(data, "email", Str0), ".")
    /\ Len(Get(data, "password", Str0)) >= 8
    /\ LowerWord(Get(data, "role", "")) \in {EMPLOYER, JOB_SEEKER}
    /\ LowerWord(Get(data, "role", "")) = EMPLOYER
           => Strip(Get(data, "company_name", Str0)) # <<>>

\* C22: no two users ever have emails that are equal ignoring letter case;
\* with no other request in flight, a well-formed register whose email
\* equals a stored user's email up to letter case (and the blanks around it)
\* is answered Conflict and creates no user.
C22_EmailUnique ==
    /\ []NoTwoUsersShareEmail
    /\ [][ (/\ Served("register")
            /\ inflight = <<>>
            /\ inflight' = <<>>
            /\ WellFormedRegistration(response'.args)
            /\ \E u \in DOMAIN users :
                  Lower(users[u].email) = Lower(Strip(response'.args["email"])))
           => (response'.code = 409 /\ users' = users) ]_vars

\* a register with a sample user's email in other letter case was refused
C22_Witness ==
    /\ response.op = "register"
    /\ response.code = 409
    /\ \A u \in DOMAIN users : users[u].email # Strip(response.args["email"])
    /\ \E u \in DOMAIN users :
          Lower(users[u].email) = Lower(Strip(response.args["email"]))

\* the one answer of a login that does not authenticate
Unauthenticated ==
    [code |-> 401, error |-> "Authentication failed",
     message |-> "Invalid email or password"]

\* the stored password of user u is pw
HasPassword(u, pw) ==
    \E salt \in Salts : users[u].password_hash = GeneratePasswordHash(pw, salt)

\* C23: a login with an email and a password is given one and the same
\* answer (status, error and message, no user id) when the email is of no
\* user and when it is of a user whose password is another.
C23_LoginFailuresAlike ==
    [][ (/\ Served("login")
         /\ DOMAIN response'.args # {}
         /\ Strip(response'.args["email"]) # <<>>
         /\ response'.args["password"] # <<>>
         /\ \A u \in DOMAIN users :
               users[u].email = Lower(Strip(response'.args["email"]))
               => ~HasPassword(u, response'.args["password"]))
        => (/\ [code |-> response'.code, error |-> response'.error,
                message |-> response'.message] = Unauthenticated
            /\ response'.ref = NoId
            /\ response'.status = ""
            /\ response'.items = <<>>) ]_vars

\* a login with an email of no user was refused
C23_Witness ==
    /\ response.op = "login"
    /\ response.code = 401
    /\ DOMAIN response.args # {}
    /\ \A u \in DOMAIN users : users[u].email # Lower(Strip(response.args["email"]))

\* C24: a login with a user's email succeeds exactly when its password is
\* the one last set for the user; register and a successful change of
\* password set it, nothing else changes it, and a change of password with
\* a wrong current password (401) or a new password shorter than 8
\* characters (400) leaves it as it was.
C24_PasswordRoundTrip ==
    [][ /\ (/\ Served("login")
            /\ DOMAIN response'.args # {}
            /\ response'.args["password"] # <<>>)
           => \A u \in DOMAIN users :
                  users[u].email = Lower(Strip(response'.args["email"]))
                  => /\ response'.code = 200 <=> HasPassword(u, response'.args["password"])
                     /\ response'.code = 200 => response'.ref = u
        /\ (Served("register") /\ response'.code = 201)
           => \E salt \in Salts :
                  users'[response'.ref].password_hash =
                      GeneratePasswordHash(response'.args["password"], salt)
        /\ (/\ Served("change_password")
            /\ "current_password" \in DOMAIN response'.args
            /\ "new_password" \in DOMAIN response'.args)
           => LET u == response'.user
                  current == response'.args["current_password"]
                  new == response'.args["new_password"]
              IN IF ~HasPassword(u, current)
                 THEN response'.code = 401 /\ users' = users
                 ELSE IF Len(new) < 8
                 THEN response'.code = 400 /\ users' = users
                 ELSE /\ response'.code = 200
                      /\ \E salt \in Salts :
                            users'[u].password_hash = GeneratePasswordHash(new, salt)
        /\ \A u \in DOMAIN users :
              users'[u].password_hash # users[u].password_hash
              => (/\ Served("change_password")
                  /\ response'.user = u
                  /\ response'.code = 200) ]_vars

\* a user logged in with a password set by a change of password
C24_Witness ==
    /\ response.op = "login"
    /\ response.code = 200
    /\ response.args["password"] = NewPassword
    /\ response.ref \in DOMAIN SampleUsers
    /\ HasPassword(response.ref, NewPassword)

\* C25: the role of a user, the employer_id of a job and the job_id and
\* applicant_id of an application are the same after every step as before
\* it, for every row that the step keeps.
C25_IdentityFieldsFrozen ==
    [][ /\ \A u \in DOMAIN users :
              u \in DOMAIN users' /\ users'[u].role = users[u].role
        /\ \A j \in DOMAIN jobs \cap DOMAIN jobs' :
              jobs'[j].employer_id = jobs[j].employer_id
        /\ \A a \in DOMAIN applications \cap DOMAIN applications' :
              /\ applications'[a].job_id = applications[a].job_id
              /\ applications'[a].applicant_id = applications[a].applicant_id ]_vars

\* a job was updated with a payload that names another employer
C25_Witness ==
    /\ response.op = "update_job"
    /\ response.code = 200
    /\ "employer_id" \in DOMAIN response.args
    /\ jobs[response.id].employer_id = response.user
    /\ response.args["employer_id"] # response.user
    /\ ApplicationsOfJob(response.id) # {}

\* C26: the owner of an inactive job who updates it with is_active true is
\* answered 200 and the job is active again; an active job is returned by
\* get and by the unfiltered list, and an apply to it by a job seeker who
\* has no application for it is answered 201 with a new pending application.
C26_Reactivate ==
    [][ /\ (/\ Served("update_job")
            /\ response'.id \in DOMAIN jobs
            /\ ~jobs[response'.id].is_active
            /\ jobs[response'.id].employer_id = response'.user
            /\ response'.args = [is_active |-> TRUE])
           => (/\ response'.code = 200
               /\ jobs'[response'.id].is_active
               /\ response'.id \in ActiveJobs')
        /\ (/\ Served("get_job")
            /\ response'.id \in DOMAIN jobs
            /\ jobs[response'.id].is_active)
           => (response'.code = 200 /\ response'.ref = response'.id)
        /\ (Served("get_all_jobs") /\ response'.args = <<>>)
           => {response'.items[i] : i \in DOMAIN response'.items}
                  = {j \in DOMAIN jobs : jobs[j].is_active}
        /\ (/\ Served("create_application")
            /\ users[response'.user].role = JOB_SEEKER
            /\ response'.id \in DOMAIN jobs
            /\ jobs[response'.id].is_active
            /\ ApplicationsFor(response'.id, response'.user) = {})
           => (/\ response'.code = 201
               /\ response'.ref \notin DOMAIN applications
               /\ response'.ref \in DOMAIN applications'
               /\ applications'[response'.ref].status = PENDING
               /\ applications'[response'.ref].job_id = response'.id
               /\ applications'[response'.ref].applicant_id = response'.user) ]_vars

\* the owner set is_active of a job back to true
C26_Witness ==
    /\ response.op = "update_job"
    /\ response.code = 200
    /\ response.args = [is_active |-> TRUE]
    /\ jobs[response.id].is_active
    /\ jobs[response.id].employer_id = response.user
    /\ \E a \in ApplicationsOfJob(response.id) : applications[a].status = WITHDRAWN

\* C27: a register committed after another request stored the same email
\* is answered 409 and creates no user.
C27_RegisterRaceConflict ==
    [][ (/\ Served("register")
         /\ inflight' # inflight
         /\ \E slot \in DOMAIN inflight :
               /\ slot \notin DOMAIN inflight' \/ inflight'[slot] # inflight[slot]
               /\ UsersWithEmail(NormalEmail(inflight[slot].data)) # {})
        => (response'.code = 409 /\ users' = users) ]_vars

\* C28: withdraw and delete of an application by a job seeker answer 404
\* when no application has the id, and 403 when the application is of
\* another job seeker, whatever its status; neither changes anything.
C28_CheckOrder ==
    [][ (/\ response'.op \in {"withdraw_application", "delete_application"}
         /\ response' # response
         /\ users[response'.user].role = JOB_SEEKER)
        => /\ response'.id \notin DOMAIN applications
              => (response'.code = 404 /\ store' = store)
           /\ (/\ response'.id \in DOMAIN applications
               /\ applications[response'.id].applicant_id # response'.user)
              => (response'.code = 403 /\ store' = store) ]_vars

\* a job seeker asked to delete another job seeker's withdrawn application
C28_Witness ==
    /\ response.op = "delete_application"
    /\ response.code = 403
    /\ response.id \in DOMAIN applications
    /\ applications[response.id].status = WITHDRAWN
    /\ users[response.user].role = JOB_SEEKER

\* C29: the job_id of every application is the id of a stored job and its
\* applicant_id the id of a stored user.
C29_ReferentialIntegrity ==
    \A a \in DOMAIN applications :
        /\ applications[a].job_id \in DOMAIN jobs
        /\ applications[a].applicant_id \in DOMAIN users

\* the hard delete of a job that has applications was asked for
C29_Witness ==
    /\ response.op = "delete_job"
    /\ response.arg = "true"
    /\ response.code = 500
    /\ response.id \in DOMAIN jobs
    /\ response.user = jobs[response.id].employer_id
    /\ ApplicationsOfJob(response.id) # {}

\* C30: an apply by a job seeker to an active job for which the job seeker
\* has a withdrawn application is answered 409 and adds nothing; once the
\* job seeker has deleted that application no application of the pair is
\* left, and an apply to the active job by a job seeker without an
\* application for it is answered 201 with a new pending application.
C30_ReapplyAfterDelete ==
    [][ /\ (/\ Served("create_application")
            /\ users[response'.user].role = JOB_SEEKER
            /\ response'.id \in DOMAIN jobs
            /\ jobs[response'.id].is_active
            /\ \E a \in ApplicationsFor(response'.id, response'.user) :
                  applications[a].status = WITHDRAWN)
           => (/\ response'.code = 409
               /\ response'.status = WITHDRAWN
               /\ applications' = applications)
        /\ (Served("delete_application") /\ response'.code = 200)
           => LET u == response'.user
                  j == applications[response'.id].job_id
              IN /\ applications[response'.id].status = WITHDRAWN
                 /\ response'.id \notin DOMAIN applications'
                 /\ \A a \in DOMAIN applications' :
                       ~(applications'[a].job_id = j /\ applications'[a].applicant_id = u)
        /\ (/\ Served("create_application")
            /\ users[response'.user].role = JOB_SEEKER
            /\ response'.id \in DOMAIN jobs
            /\ jobs[response'.id].is_active
            /\ ExistingApplications(response'.id, response'.user) = {})
           => (/\ response'.code = 201
               /\ response'.status = PENDING
               /\ response'.ref > app_seq
               /\ applications'[response'.ref].status = PENDING
               /\ DOMAIN applications' = DOMAIN applications \cup {response'.ref}) ]_vars

\* a job seeker applied again after an earlier application was deleted
C30_Witness ==
    /\ response.op = "create_application"
    /\ response.code = 201
    /\ response.ref > 1
    /\ DOMAIN applications = {response.ref}
    /\ jobs[response.id].is_active

====
